---- MODULE Spec2Model ----
(***************************************************************************)
(* A model of the typed_nodes node store: Nodes (a map from a concrete     *)
(* type to its NodeGroup), NodeGroup (a SlotMap of Slot<T> plus an id      *)
(* index), and the handle types Key, ReservedKey and DynKey.               *)
(*                                                                         *)
(* The SlotMap is the slotmap crate's basic SlotMap<DefaultKey, V>: a      *)
(* vector of slots with a version each (odd = occupied), a LIFO free list  *)
(* threaded through the vacant slots, and keys (idx, version).  Index 0 of *)
(* the crate's vector is a sentinel; the sequence `slots` here holds the   *)
(* slots of index 1, 2, ...                                                *)
(*                                                                         *)
(* Spec runs the operations that change the store with the handles this    *)
(* store handed out; SpecForeign adds handles made by another Nodes;       *)
(* SpecCalls interleaves the read calls; SpecDynKey runs the conversions   *)
(* between Key and DynKey on their own; SpecLua runs Key::from_lua, the    *)
(* parse of a graph of Lua tables into nodes, one step of the recursion    *)
(* at a time.  SpecIds is Spec without the id-less insert; SpecRemove is   *)
(* Spec with remove called on any Key; SpecTableId runs TableId and        *)
(* TableIdSource on their own; SpecGen runs the derived generate_lua over  *)
(* a LuaModule, one step of the recursion at a time.                       *)
(***************************************************************************)
EXTENDS Integers, Sequences, FiniteSets, TLC

\* ---------------------------------------------------------------- bounds
\* The slot vectors of all groups together grow to at most MaxSlots cells.
MaxSlots == 2
\* Freed cells are handed out again at most MaxReuse times, all groups together.
MaxReuse == 1
\* The largest version a cell can then have when it is handed out.
MaxVersion == 2 * MaxReuse + 1

\* The concrete node types stored, the external ids and the node values used.
Types == {"A", "B"}
\* The types a handle can be made for: the stored ones and one never stored.
AllTypes == Types \cup {"C"}
Ids == {1, 2}
Values == {"x", "y"}

\* The Lua tables a script holds; a field of a table holds a table or nil.
Tables == {"t1", "t2", "t3"}
Nil == "nil"
\* The numbers of node fields a table can have.
FieldCounts == {0, 1, 2}
\* The largest mlua::Integer (i64::MAX), scaled down to the reach of the model.
IntegerMax == 4
\* The TableIds a TableIdSource hands out for these tables: 0, 1, ...
TableIds == 0..(Cardinality(Tables) - 1)
\* FromLuaContext::table_id_to_node_id, here with NodeId = TableId.
table_id_to_node_id(id) == id
\* The keys an id index can hold: the external ids and the ids of the tables.
NodeIds == Ids \cup {table_id_to_node_id(id) : id \in TableIds}

\* ------------------------------------------------------- Option<...>
None == <<>>
Some(x) == <<x>>
Unwrap(o) == o[1]

\* ------------------------------------------------------------ Slot<T>
Reserved == [tag |-> "Reserved", value |-> "-"]
Filled(node) == [tag |-> "Filled", value |-> node]
\* The contents of a vacant SlotMap cell (the union holds next_free instead).
Vacant == [tag |-> "Vacant", value |-> "-"]

as_filled(slot) == IF slot.tag = "Filled" THEN Some(slot.value) ELSE None
into_filled(slot) == IF slot.tag = "Filled" THEN Some(slot.value) ELSE None

\* ------------------------------------------------------------ SlotMap
\* KeyData of a DefaultKey.
KeyData(idx, version) == [idx |-> idx, version |-> version]

SlotMap_new == [slots |-> <<>>, free_head |-> 1]

SlotMap_contains_key(sm, k) ==
    /\ k.idx \in 1..Len(sm.slots)
    /\ sm.slots[k.idx].version = k.version

SlotMap_get(sm, k) ==
    IF SlotMap_contains_key(sm, k) THEN Some(sm.slots[k.idx].value) ELSE None

\* version | 1
OccupiedVersion(version) == IF version % 2 = 0 THEN version + 1 ELSE version

\* SlotMap::insert without generations: a reused cell gets version 1 again.
SlotMap_insert_no_generation(sm, value) ==
    IF sm.free_head \in 1..Len(sm.slots)
    THEN LET idx == sm.free_head
             slot == sm.slots[idx]
         IN  [map |-> [slots |-> [sm.slots EXCEPT ![idx] =
                                    [version |-> 1, value |-> value, next_free |-> 0]],
                       free_head |-> slot.next_free],
              key |-> KeyData(idx, 1)]
    ELSE LET idx == Len(sm.slots) + 1
         IN  [map |-> [slots |-> Append(sm.slots,
                                    [version |-> 1, value |-> value, next_free |-> 0]),
                       free_head |-> idx + 1],
              key |-> KeyData(idx, 1)]

\* SlotMap::insert: reuse the head of the free list, else push a new cell.
SlotMap_insert(sm, value) ==
    IF sm.free_head \in 1..Len(sm.slots)
    THEN LET idx == sm.free_head
             slot == sm.slots[idx]
             occupied_version == OccupiedVersion(slot.version)
         IN  [map |-> [slots |-> [sm.slots EXCEPT ![idx] =
                                    [version |-> occupied_version,
                                     value |-> value,
                                     next_free |-> 0]],
                       free_head |-> slot.next_free],
              key |-> KeyData(idx, occupied_version)]
    ELSE LET idx == Len(sm.slots) + 1
         IN  [map |-> [slots |-> Append(sm.slots,
                                    [version |-> 1, value |-> value, next_free |-> 0]),
                       free_head |-> idx + 1],
              key |-> KeyData(idx, 1)]

\* The key SlotMap::insert is about to hand out.
SlotMap_next_key(sm) == SlotMap_insert(sm, Vacant).key

\* SlotMap::get_mut followed by an assignment through the reference.
SlotMap_set(sm, k, value) ==
    [sm EXCEPT !.slots[k.idx].value = value]

\* SlotMap::remove that leaves the version of the freed cell as it was.
SlotMap_remove_no_bump(sm, k) ==
    IF SlotMap_contains_key(sm, k)
    THEN [map |-> [slots |-> [sm.slots EXCEPT ![k.idx] =
                                [version |-> sm.slots[k.idx].version,
                                 value |-> Vacant,
                                 next_free |-> sm.free_head]],
                   free_head |-> k.idx],
          value |-> Some(sm.slots[k.idx].value)]
    ELSE [map |-> sm, value |-> None]

\* SlotMap::remove: bump the version, push the cell on the free list.  The version
\* is a u32 bumped with wrapping_add; a cell of the model is handed out only while
\* its version is at most MaxVersion, far below the 2^31 reuses a wrap takes.
SlotMap_remove(sm, k) ==
    IF SlotMap_contains_key(sm, k)
    THEN [map |-> [slots |-> [sm.slots EXCEPT ![k.idx] =
                                [version |-> sm.slots[k.idx].version + 1,
                                 value |-> Vacant,
                                 next_free |-> sm.free_head]],
                   free_head |-> k.idx],
          value |-> Some(sm.slots[k.idx].value)]
    ELSE [map |-> sm, value |-> None]

\* SlotMap::iter: the occupied cells in index order, as <<key, value>>.
RECURSIVE SlotMap_iter_from(_, _)
SlotMap_iter_from(sm, i) ==
    IF i > Len(sm.slots) THEN <<>>
    ELSE LET slot == sm.slots[i]
             rest == SlotMap_iter_from(sm, i + 1)
         IN  IF slot.version % 2 = 1
             THEN <<<<KeyData(i, slot.version), slot.value>>>> \o rest
             ELSE rest

\* SlotMap::iter that walks the cells from the last index down.
SlotMap_iter_reversed(sm) ==
    LET up == SlotMap_iter_from(sm, 1)
    IN  [i \in 1..Len(up) |-> up[Len(up) + 1 - i]]

SlotMap_iter(sm) == SlotMap_iter_from(sm, 1)

\* ------------------------------------------------------------ handles
\* A TypeId that is the same for every type.
TypeId_of_collides(T) == "A"

\* TypeId::of::<T>(): a different id for every type.
TypeId_of(T) == T
TypeIds == {TypeId_of(T) : T \in AllTypes}

\* Key<T> and ReservedKey<T> are a DefaultKey plus a phantom type: in the model a
\* typed key is the KeyData, used together with the type it was made for.
Key_new(slot) == slot
ReservedKey_new(slot) == slot

\* DynKey::new::<T>(key)
DynKey_new(T, key) == [slot |-> key, node_type |-> TypeId_of(T)]

\* An equality of DynKeys that looks at the slot only.
DynKey_eq_slot_only(a, b) == a.slot = b.slot

\* #[derive(PartialEq)] for DynKey: field by field, slot and node_type.
DynKey_eq(a, b) == a.slot = b.slot /\ a.node_type = b.node_type

\* into_static that succeeds exactly when the type tags differ.
DynKey_into_static_inverted(dyn_key, T) ==
    IF TypeId_of(T) # dyn_key.node_type THEN Some(Key_new(dyn_key.slot)) ELSE None

\* into_static without the check of the type tag.
DynKey_into_static_unchecked(dyn_key, T) == Some(Key_new(dyn_key.slot))

\* DynKey::into_static::<T>()
DynKey_into_static(dyn_key, T) ==
    IF TypeId_of(T) = dyn_key.node_type THEN Some(Key_new(dyn_key.slot)) ELSE None

\* ---------------------------------------------------------- NodeGroup
\* NodeGroup::<I, T>::default(); node_type is the T of the group's Rust type.
NodeGroup_default(T) ==
    [node_type |-> T, nodes |-> SlotMap_new, id_map |-> [id \in NodeIds |-> None]]

\* insert that goes through insert_with_id with a fixed id.
NodeGroup_insert_as_id(g, node) ==
    LET id == CHOOSE i \in DOMAIN g.id_map : \A j \in DOMAIN g.id_map : i <= j
        r == SlotMap_insert(g.nodes, Filled(node))
    IN  [group |-> [g EXCEPT !.nodes = r.map, !.id_map[id] = Some(r.key)],
         key |-> Key_new(r.key)]

NodeGroup_insert(g, node) ==
    LET r == SlotMap_insert(g.nodes, Filled(node))
    IN  [group |-> [g EXCEPT !.nodes = r.map], key |-> Key_new(r.key)]

\* insert_reserved that allocates a slot for the node when the reserved one is absent.
NodeGroup_insert_reserved_or_insert(g, key, node) ==
    IF SlotMap_contains_key(g.nodes, key)
    THEN [group |-> [g EXCEPT !.nodes = SlotMap_set(g.nodes, key, Filled(node))],
          key |-> Key_new(key), panic |-> FALSE]
    ELSE LET r == SlotMap_insert(g.nodes, Filled(node))
         IN  [group |-> [g EXCEPT !.nodes = r.map], key |-> Key_new(r.key), panic |-> FALSE]

\* .expect("reserved slot was removed") panics when the slot is absent.
NodeGroup_insert_reserved(g, key, node) ==
    IF SlotMap_contains_key(g.nodes, key)
    THEN [group |-> [g EXCEPT !.nodes = SlotMap_set(g.nodes, key, Filled(node))],
          key |-> Key_new(key), panic |-> FALSE]
    ELSE [group |-> g, key |-> key, panic |-> TRUE]

NodeGroup_get(g, key) ==
    LET slot == SlotMap_get(g.nodes, key)
    IN  IF slot = None THEN None ELSE as_filled(Unwrap(slot))

NodeGroup_get_mut(g, key) ==
    LET slot == SlotMap_get(g.nodes, key)
    IN  IF slot = None THEN None ELSE as_filled(Unwrap(slot))

\* remove that finds the slot by the index of the key and ignores its version.
NodeGroup_remove_by_index(g, key) ==
    IF key.idx \notin 1..Len(g.nodes.slots)
    THEN [group |-> g, value |-> None]
    ELSE LET slot == KeyData(key.idx, g.nodes.slots[key.idx].version)
         IN  IF SlotMap_get(g.nodes, slot) \in {Some(Reserved), Some(Vacant)}
             THEN [group |-> g, value |-> None]
             ELSE LET retained == [id \in DOMAIN g.id_map |->
                                     IF g.id_map[id] # None /\ Unwrap(g.id_map[id]) = slot
                                     THEN None ELSE g.id_map[id]]
                      r == SlotMap_remove(g.nodes, slot)
                  IN  [group |-> [g EXCEPT !.nodes = r.map, !.id_map = retained],
                       value |-> IF r.value = None THEN None
                                 ELSE into_filled(Unwrap(r.value))]

\* remove that clears the whole id index.
NodeGroup_remove_clears_index(g, key) ==
    IF SlotMap_get(g.nodes, key) \in {Some(Reserved), None}
    THEN [group |-> g, value |-> None]
    ELSE LET r == SlotMap_remove(g.nodes, key)
         IN  [group |-> [g EXCEPT !.nodes = r.map,
                                  !.id_map = [id \in DOMAIN g.id_map |-> None]],
              value |-> IF r.value = None THEN None ELSE into_filled(Unwrap(r.value))]

\* remove that leaves the id index as it was.
NodeGroup_remove_keeps_index(g, key) ==
    IF SlotMap_get(g.nodes, key) \in {Some(Reserved), None}
    THEN [group |-> g, value |-> None]
    ELSE LET r == SlotMap_remove(g.nodes, key)
         IN  [group |-> [g EXCEPT !.nodes = r.map],
              value |-> IF r.value = None THEN None ELSE into_filled(Unwrap(r.value))]

\* remove whose retain keeps the entries of the removed slot and drops the others.
NodeGroup_remove_retain_inverted(g, key) ==
    IF SlotMap_get(g.nodes, key) \in {Some(Reserved), None}
    THEN [group |-> g, value |-> None]
    ELSE LET retained == [id \in DOMAIN g.id_map |->
                            IF g.id_map[id] # None /\ Unwrap(g.id_map[id]) # key
                            THEN None ELSE g.id_map[id]]
             r == SlotMap_remove(g.nodes, key)
         IN  [group |-> [g EXCEPT !.nodes = r.map, !.id_map = retained],
              value |-> IF r.value = None THEN None ELSE into_filled(Unwrap(r.value))]

\* remove that drops the index entries and hands the value out, leaving the slot.
NodeGroup_remove_keeps_slot(g, key) ==
    IF SlotMap_get(g.nodes, key) \in {Some(Reserved), None}
    THEN [group |-> g, value |-> None]
    ELSE LET retained == [id \in DOMAIN g.id_map |->
                            IF g.id_map[id] # None /\ Unwrap(g.id_map[id]) = key
                            THEN None ELSE g.id_map[id]]
         IN  [group |-> [g EXCEPT !.id_map = retained],
              value |-> into_filled(Unwrap(SlotMap_get(g.nodes, key)))]

\* remove without the early return for a Reserved slot.
NodeGroup_remove_reserved_too(g, key) ==
    IF SlotMap_get(g.nodes, key) = None
    THEN [group |-> g, value |-> None]
    ELSE LET retained == [id \in DOMAIN g.id_map |->
                            IF g.id_map[id] # None /\ Unwrap(g.id_map[id]) = key
                            THEN None ELSE g.id_map[id]]
             r == SlotMap_remove(g.nodes, key)
         IN  [group |-> [g EXCEPT !.nodes = r.map, !.id_map = retained],
              value |-> IF r.value = None THEN None ELSE into_filled(Unwrap(r.value))]

NodeGroup_remove(g, key) ==
    IF SlotMap_get(g.nodes, key) \in {Some(Reserved), None}
    THEN [group |-> g, value |-> None]
    ELSE LET retained == [id \in DOMAIN g.id_map |->
                            IF g.id_map[id] # None /\ Unwrap(g.id_map[id]) = key
                            THEN None ELSE g.id_map[id]]
             r == SlotMap_remove(g.nodes, key)
         IN  [group |-> [g EXCEPT !.nodes = r.map, !.id_map = retained],
              value |-> IF r.value = None THEN None ELSE into_filled(Unwrap(r.value))]

\* insert_with_id that removes the slot the id pointed at before.
NodeGroup_insert_with_id_drops_old(g, id, node) ==
    LET old_slot == g.id_map[id]
        nodes == IF old_slot = None THEN g.nodes
                 ELSE SlotMap_remove(g.nodes, Unwrap(old_slot)).map
        r == SlotMap_insert(nodes, Filled(node))
    IN  [group |-> [g EXCEPT !.nodes = r.map, !.id_map[id] = Some(r.key)],
         key |-> Key_new(r.key),
         prev |-> old_slot]

\* insert_with_id that puts the node into the slot the id already points at.
NodeGroup_insert_with_id_in_place(g, id, node) ==
    LET old_slot == g.id_map[id]
    IN  IF old_slot # None /\ SlotMap_contains_key(g.nodes, Unwrap(old_slot))
        THEN [group |-> [g EXCEPT !.nodes = SlotMap_set(g.nodes, Unwrap(old_slot), Filled(node))],
              key |-> Key_new(Unwrap(old_slot)),
              prev |-> old_slot]
        ELSE LET r == SlotMap_insert(g.nodes, Filled(node))
             IN  [group |-> [g EXCEPT !.nodes = r.map, !.id_map[id] = Some(r.key)],
                  key |-> Key_new(r.key),
                  prev |-> old_slot]

NodeGroup_insert_with_id(g, id, node) ==
    LET r == SlotMap_insert(g.nodes, Filled(node))
        old_slot == g.id_map[id]
    IN  [group |-> [g EXCEPT !.nodes = r.map, !.id_map[id] = Some(r.key)],
         key |-> Key_new(r.key),
         prev |-> old_slot]

\* reserve_with_id that allocates the slot and forgets to index it.
NodeGroup_reserve_with_id_no_index(g, id) ==
    LET r == SlotMap_insert(g.nodes, Reserved)
        old_slot == g.id_map[id]
    IN  [group |-> [g EXCEPT !.nodes = r.map],
         key |-> ReservedKey_new(r.key),
         prev |-> old_slot]

\* reserve_with_id that points the id at a Reserved slot another id points at,
\* if there is one, instead of allocating.
NodeGroup_reserve_with_id_shares(g, id) ==
    LET waiting == {j \in DOMAIN g.id_map :
                      /\ j # id
                      /\ g.id_map[j] # None
                      /\ SlotMap_get(g.nodes, Unwrap(g.id_map[j])) = Some(Reserved)}
        r == SlotMap_insert(g.nodes, Reserved)
        old_slot == g.id_map[id]
    IN  IF waiting = {}
        THEN [group |-> [g EXCEPT !.nodes = r.map, !.id_map[id] = Some(r.key)],
              key |-> ReservedKey_new(r.key),
              prev |-> old_slot]
        ELSE LET slot == Unwrap(g.id_map[CHOOSE j \in waiting : TRUE])
             IN  [group |-> [g EXCEPT !.id_map[id] = Some(slot)],
                  key |-> ReservedKey_new(slot),
                  prev |-> old_slot]

\* reserve_with_id that leaves an id that is indexed already where it points.
NodeGroup_reserve_with_id_keeps_first(g, id) ==
    LET r == SlotMap_insert(g.nodes, Reserved)
        old_slot == g.id_map[id]
    IN  [group |-> [g EXCEPT !.nodes = r.map,
                             !.id_map[id] = IF old_slot = None THEN Some(r.key) ELSE old_slot],
         key |-> ReservedKey_new(r.key),
         prev |-> old_slot]

\* reserve_with_id that removes the slot the id pointed at before.
NodeGroup_reserve_with_id_replaces(g, id) ==
    LET old_slot == g.id_map[id]
        nodes == IF old_slot = None THEN g.nodes
                 ELSE SlotMap_remove(g.nodes, Unwrap(old_slot)).map
        r == SlotMap_insert(nodes, Reserved)
    IN  [group |-> [g EXCEPT !.nodes = r.map, !.id_map[id] = Some(r.key)],
         key |-> ReservedKey_new(r.key),
         prev |-> old_slot]

NodeGroup_reserve_with_id(g, id) ==
    LET r == SlotMap_insert(g.nodes, Reserved)
        old_slot == g.id_map[id]
    IN  [group |-> [g EXCEPT !.nodes = r.map, !.id_map[id] = Some(r.key)],
         key |-> ReservedKey_new(r.key),
         prev |-> old_slot]

NodeGroup_get_key(g, id) == g.id_map[id]

\* <NodeGroup<I, T> as DynNodeGroup>::get_dyn; as_dyn_ref is a reference cast.
NodeGroup_get_dyn(g, dyn_key) ==
    LET key == DynKey_into_static(dyn_key, g.node_type)
    IN  IF key = None THEN None ELSE NodeGroup_get(g, Unwrap(key))

NodeGroup_get_dyn_mut(g, dyn_key) ==
    LET key == DynKey_into_static(dyn_key, g.node_type)
    IN  IF key = None THEN None ELSE NodeGroup_get_mut(g, Unwrap(key))

\* <NodeGroup<I, T> as DynNodeGroup>::iter_dyn: filter_map over nodes.iter().
RECURSIVE FilterMapFilled(_, _)
FilterMapFilled(T, pairs) ==
    IF pairs = <<>> THEN <<>>
    ELSE LET key == pairs[1][1]
             value == as_filled(pairs[1][2])
             rest == FilterMapFilled(T, Tail(pairs))
         IN  IF value = None THEN rest
             ELSE <<<<[slot |-> key, node_type |-> TypeId_of(T)], Unwrap(value)>>>> \o rest

\* iter_dyn that yields every occupied slot, the Reserved ones too.
NodeGroup_iter_dyn_all(g) ==
    LET pairs == SlotMap_iter(g.nodes)
    IN  [i \in 1..Len(pairs) |->
            <<[slot |-> pairs[i][1], node_type |-> TypeId_of(g.node_type)], pairs[i][2].value>>]

NodeGroup_iter_dyn(g) == FilterMapFilled(g.node_type, SlotMap_iter(g.nodes))

\* -------------------------------------------------------------- state
VARIABLES
    node_groups,   \* Nodes::node_groups: for each type, None or Some(NodeGroup)
    reserved,      \* the ReservedKeys this store handed out and nobody consumed yet
    removed,       \* the typed Keys for which remove returned a value
    panicked,      \* TRUE once an operation has panicked
    last,          \* the last call: its name, arguments and results
    lua,           \* the Lua tables being parsed and the position of Key::from_lua
    module         \* the LuaModule and the position of generate_lua

vars == <<node_groups, reserved, removed, panicked, last, lua, module>>

\* The Keys of any Nodes: any cell index and occupied version in range.
KeySpace == {KeyData(idx, version) : idx \in 1..MaxSlots,
                                     version \in {v \in 1..MaxVersion : v % 2 = 1}}

NoKey == KeyData(0, 0)

\* ids: for remove, the ids whose index entry pointed at the key when it was called.
Call(op, T, id, key, val, ret, prev) ==
    [op |-> op, ty |-> T, id |-> id, key |-> key, val |-> val, ret |-> ret, prev |-> prev,
     ids |-> {}]

\* node_groups.insert(TypeId::of::<T>(), default()): a new group on every call.
EntryOrInsert_fresh(ng, T) == NodeGroup_default(T)

\* self.node_groups.entry(TypeId::of::<T>()).or_insert_with(|| T::box_group(default()))
EntryOrInsert(ng, T) ==
    IF ng[TypeId_of(T)] = None THEN NodeGroup_default(T) ELSE Unwrap(ng[TypeId_of(T)])

\* The number of cells in the slot vectors of all groups.
RECURSIVE SumCells(_, _)
SumCells(ng, type_ids) ==
    IF type_ids = {} THEN 0
    ELSE LET t == CHOOSE u \in type_ids : TRUE
         IN  (IF ng[t] = None THEN 0 ELSE Len(Unwrap(ng[t]).nodes.slots))
             + SumCells(ng, type_ids \ {t})

\* The number of times the cells of a slot vector were handed out again.
RECURSIVE Reuses(_)
Reuses(slots) ==
    IF slots = <<>> THEN 0
    ELSE ((Head(slots).version - 1) \div 2) + Reuses(Tail(slots))

RECURSIVE SumReuses(_, _)
SumReuses(ng, type_ids) ==
    IF type_ids = {} THEN 0
    ELSE LET t == CHOOSE u \in type_ids : TRUE
         IN  (IF ng[t] = None THEN 0 ELSE Reuses(Unwrap(ng[t]).nodes.slots))
             + SumReuses(ng, type_ids \ {t})

\* The next allocation in the group of T stays inside the bounds of the model.
CanAlloc(ng, T) ==
    LET g == EntryOrInsert(ng, T)
        k == SlotMap_next_key(g.nodes)
    IN  IF k.idx > Len(g.nodes.slots)
        THEN SumCells(ng, TypeIds) < MaxSlots
        ELSE SumReuses(ng, TypeIds) < MaxReuse

\* The Key<T> values this store has handed out, from insert, insert_with_id,
\* get_key or as the previous Key of an id: every occupied version each cell had.
IssuedKeys(ng, T) ==
    IF ng[TypeId_of(T)] = None THEN {}
    ELSE LET slots == Unwrap(ng[TypeId_of(T)]).nodes.slots
         IN  {k \in [idx : 1..Len(slots), version : 1..MaxVersion] :
                k.version % 2 = 1 /\ k.version <= slots[k.idx].version}

\* ----------------------------------------------- Nodes: read operations
Nodes_get(ng, T, key) ==
    IF ng[TypeId_of(T)] = None THEN None ELSE NodeGroup_get(Unwrap(ng[TypeId_of(T)]), key)

Nodes_get_mut(ng, T, key) ==
    IF ng[TypeId_of(T)] = None THEN None ELSE NodeGroup_get_mut(Unwrap(ng[TypeId_of(T)]), key)

Nodes_get_key(ng, T, id) ==
    IF ng[TypeId_of(T)] = None THEN None ELSE NodeGroup_get_key(Unwrap(ng[TypeId_of(T)]), id)

\* get_dyn that looks for the slot in whichever group exists, not by node_type.
Nodes_get_dyn_any_group(ng, dyn_key) ==
    LET present == {t \in TypeIds : ng[t] # None}
    IN  IF present = {} THEN None
        ELSE NodeGroup_get(Unwrap(ng[CHOOSE t \in present : TRUE]), dyn_key.slot)

Nodes_get_dyn(ng, dyn_key) ==
    IF ng[dyn_key.node_type] = None THEN None
    ELSE NodeGroup_get_dyn(Unwrap(ng[dyn_key.node_type]), dyn_key)

Nodes_get_dyn_mut(ng, dyn_key) ==
    IF ng[dyn_key.node_type] = None THEN None
    ELSE NodeGroup_get_dyn_mut(Unwrap(ng[dyn_key.node_type]), dyn_key)

\* node_groups.values(): the groups present, in the order the hash map yields them.
RECURSIVE FlatMapIterDyn(_, _)
FlatMapIterDyn(ng, order) ==
    IF order = <<>> THEN <<>>
    ELSE NodeGroup_iter_dyn(Unwrap(ng[order[1]])) \o FlatMapIterDyn(ng, Tail(order))

\* The orders in which node_groups.values() may visit the groups.
ValuesOrders(ng) ==
    LET present == {t \in TypeIds : ng[t] # None}
    IN  {order \in [1..Cardinality(present) -> present] :
            \A i, j \in DOMAIN order : i # j => order[i] # order[j]}

Nodes_iter_dyn(ng, order) == FlatMapIterDyn(ng, order)

\* ------------------------------------------------ the parse context
\* The node type the tables are parsed as: Key::<T>::from_lua with T = LuaType.
LuaType == "A"

\* The fields of a table that hold nodes, in the order T::from_lua reads them.
FieldLists == UNION {[1..n -> Tables \cup {Nil}] : n \in FieldCounts}
Scripts == [Tables -> FieldLists]
MaxFields == CHOOSE n \in FieldCounts : \A k \in FieldCounts : k <= n

\* A FromLuaContext over a script, before any from_lua call:
\*   script     the tables and their fields
\*   table_id   the raw field `_node_table_id` of each table (nil at first)
\*   source     the TableIdSource (TableIdSource::new())
\*   stack      one frame per Key::from_lua call that has reserved its slot and
\*              is inside T::from_lua: the table, its ReservedKey and the Keys
\*              its fields have been parsed to so far
\*   pc, ret    "idle", "running", or the result of the outermost call
\*   call_reserved  the slots reserved since the outermost call began
\*   fields     the Keys held by the node built from each table
LuaContext(script) ==
    [script |-> script,
     table_id |-> [t \in Tables |-> None],
     source |-> 0,
     stack |-> <<>>,
     pc |-> "idle",
     ret |-> None,
     call_reserved |-> {},
     fields |-> [t \in Tables |-> <<>>]]

\* i64::checked_add on an mlua::Integer
checked_add(a, b) == IF a + b > IntegerMax THEN None ELSE Some(a + b)

\* next_table_id with a counter that wraps around at the largest integer.
TableIdSource_next_table_id_wrapping(source) ==
    [id |-> source,
     source |-> IF source = IntegerMax THEN -IntegerMax - 1 ELSE source + 1,
     panic |-> FALSE]

\* TableIdSource::next_table_id: the counter, which is then advanced;
\* .expect("out of table IDs") panics when checked_add overflows.
TableIdSource_next_table_id(source) ==
    LET next == checked_add(source, 1)
    IN  [id |-> source,
         source |-> IF next = None THEN source ELSE Unwrap(next),
         panic |-> next = None]

\* get_or_assign that does not read the id stored in the table.
TableId_get_or_assign_always_new(ctx, table) ==
    LET n == TableIdSource_next_table_id(ctx.source)
    IN  [id |-> n.id,
         ctx |-> IF n.panic THEN ctx
                 ELSE [ctx EXCEPT !.table_id[table] = Some(n.id), !.source = n.source],
         panic |-> n.panic]

\* TableId::get_or_assign: the id stored in the table, else a new one, stored.
TableId_get_or_assign(ctx, table) ==
    IF ctx.table_id[table] # None
    THEN [id |-> Unwrap(ctx.table_id[table]), ctx |-> ctx, panic |-> FALSE]
    ELSE LET n == TableIdSource_next_table_id(ctx.source)
         IN  [id |-> n.id,
              ctx |-> IF n.panic THEN ctx
                      ELSE [ctx EXCEPT !.table_id[table] = Some(n.id), !.source = n.source],
              panic |-> n.panic]

\* ------------------------------------------------ LuaModule, GenerateLua
\* The types with #[derive(GenerateLua)].
GenTypes == {"G1", "G2", "G3"}
\* The numbers of base types a type can delegate to: lua_base_type of a struct,
\* of an enum and of its variants.
BaseCounts == {0, 1, 2}
BaseLists == UNION {[1..n -> GenTypes] : n \in BaseCounts}
\* The type definitions: for each type the base types its generate_lua
\* delegates to, in order; a type can name itself or a type that names it.
TypeGraphs == [GenTypes -> BaseLists]

\* LuaModule::new(), for a program with the given type definitions:
\*   types          the type definitions
\*   visited_types  LuaModule::visited_types
\*   metatables     the keys of LuaModule::metatables
\*   methods        how many times the methods of each type were added
\*   stack          one frame per generate_lua call that passed visit_type: the
\*                  type and the number of base types it has delegated to
LuaModule_new(types) ==
    [types |-> types,
     visited_types |-> {},
     metatables |-> {},
     methods |-> [T \in GenTypes |-> 0],
     stack |-> <<>>]

\* visit_type that does not record the type.
LuaModule_visit_type_forgets(mod, T) ==
    [module |-> mod, unvisited |-> T \notin mod.visited_types]

\* LuaModule::visit_type::<T>(): AHashSet::insert is true for a new element.
LuaModule_visit_type(mod, T) ==
    LET unvisited == T \notin mod.visited_types
    IN  [module |-> [mod EXCEPT !.visited_types = @ \cup {T},
                                !.metatables = IF unvisited THEN @ \cup {T} ELSE @],
         unvisited |-> unvisited]

\* The add_method calls at the end of the derived generate_lua of T.
LuaModule_add_method(mod, T) ==
    [mod EXCEPT !.metatables = @ \cup {T}, !.methods[T] = @ + 1]

\* The derived generate_lua of T up to its first delegation: return at once
\* unless visit_type says the type is new.
GenerateLua_generate_lua(mod, T) ==
    LET v == LuaModule_visit_type(mod, T)
    IN  [module |-> IF v.unvisited
                    THEN [v.module EXCEPT !.stack = Append(@, [ty |-> T, done |-> 0])]
                    ELSE v.module,
         unvisited |-> v.unvisited]

\* ---------------------------------------------------------------- Init
\* Nodes::new()
Init ==
    /\ node_groups = [t \in TypeIds |-> None]
    /\ reserved = {}
    /\ removed = {}
    /\ panicked = FALSE
    /\ last = Call("new", "A", 0, NoKey, "-", None, None)
    /\ lua = LuaContext([t \in Tables |-> <<>>])
    /\ module = LuaModule_new([T \in GenTypes |-> <<>>])

\* ------------------------------------------- Nodes: mutating operations
Nodes_insert(T, node) ==
    /\ ~panicked
    /\ CanAlloc(node_groups, T)
    /\ LET r == NodeGroup_insert(EntryOrInsert(node_groups, T), node)
       IN  /\ node_groups' = [node_groups EXCEPT ![TypeId_of(T)] = Some(r.group)]
           /\ last' = Call("insert", T, 0, NoKey, node, r.key, None)
    /\ UNCHANGED <<reserved, removed, panicked, lua, module>>

Nodes_insert_with_id(T, id, node) ==
    /\ ~panicked
    /\ CanAlloc(node_groups, T)
    /\ LET r == NodeGroup_insert_with_id(EntryOrInsert(node_groups, T), id, node)
       IN  /\ node_groups' = [node_groups EXCEPT ![TypeId_of(T)] = Some(r.group)]
           /\ last' = Call("insert_with_id", T, id, NoKey, node, r.key, r.prev)
    /\ UNCHANGED <<reserved, removed, panicked, lua, module>>

Nodes_reserve_with_id(T, id) ==
    /\ ~panicked
    /\ CanAlloc(node_groups, T)
    /\ LET r == NodeGroup_reserve_with_id(EntryOrInsert(node_groups, T), id)
       IN  /\ node_groups' = [node_groups EXCEPT ![TypeId_of(T)] = Some(r.group)]
           /\ reserved' = reserved \cup {[ty |-> T, key |-> r.key]}
           /\ last' = Call("reserve_with_id", T, id, NoKey, "-", r.key, r.prev)
    /\ UNCHANGED <<removed, panicked, lua, module>>

\* insert_reserved with a ReservedKey this store handed out; the call consumes it.
Nodes_insert_reserved(T, key, node) ==
    /\ ~panicked
    /\ [ty |-> T, key |-> key] \in reserved
    /\ LET r == NodeGroup_insert_reserved(EntryOrInsert(node_groups, T), key, node)
       IN  /\ node_groups' = [node_groups EXCEPT ![TypeId_of(T)] = Some(r.group)]
           /\ panicked' = r.panic
           /\ last' = IF r.panic
                       THEN Call("insert_reserved", T, 0, NoKey, "-", NoKey, None)
                       ELSE Call("insert_reserved", T, 0, key, node, r.key, None)
    /\ reserved' = reserved \ {[ty |-> T, key |-> key]}
    /\ UNCHANGED <<removed, lua, module>>

\* insert_reserved with a ReservedKey<T> that another Nodes handed out.
Nodes_insert_reserved_foreign(T, key, node) ==
    /\ ~panicked
    /\ LET r == NodeGroup_insert_reserved(EntryOrInsert(node_groups, T), key, node)
       IN  /\ node_groups' = [node_groups EXCEPT ![TypeId_of(T)] = Some(r.group)]
           /\ panicked' = r.panic
           /\ last' = IF r.panic
                       THEN Call("insert_reserved_foreign", T, 0, NoKey, "-", NoKey, None)
                       ELSE Call("insert_reserved_foreign", T, 0, key, node, r.key, None)
    /\ UNCHANGED <<reserved, removed, lua, module>>

Nodes_remove(T, key) ==
    /\ ~panicked
    /\ IF node_groups[TypeId_of(T)] = None
       THEN /\ last' = Call("remove", T, 0, key, "-", None, None)
            /\ UNCHANGED <<node_groups, removed>>
       ELSE LET r == NodeGroup_remove(Unwrap(node_groups[TypeId_of(T)]), key)
            IN  /\ node_groups' = [node_groups EXCEPT ![TypeId_of(T)] = Some(r.group)]
                /\ removed' = IF r.value = None THEN removed
                              ELSE removed \cup {[ty |-> T, key |-> key]}
                /\ last' = [Call("remove", T, 0, key, "-", r.value, None) EXCEPT
                               !.ids = {id \in Ids : Nodes_get_key(node_groups, T, id) = Some(key)}]
    /\ UNCHANGED <<reserved, panicked, lua, module>>

\* ------------------------------------------------- Nodes: read calls
Call_get(T, key) ==
    /\ ~panicked
    /\ last' = Call("get", T, 0, key, "-", Nodes_get(node_groups, T, key), None)
    /\ UNCHANGED <<node_groups, reserved, removed, panicked, lua, module>>

Call_get_mut(T, key) ==
    /\ ~panicked
    /\ last' = Call("get_mut", T, 0, key, "-", Nodes_get_mut(node_groups, T, key), None)
    /\ UNCHANGED <<node_groups, reserved, removed, panicked, lua, module>>

Call_get_key(T, id) ==
    /\ ~panicked
    /\ last' = Call("get_key", T, id, NoKey, "-", Nodes_get_key(node_groups, T, id), None)
    /\ UNCHANGED <<node_groups, reserved, removed, panicked, lua, module>>

Call_get_dyn(T, key) ==
    /\ ~panicked
    /\ last' = Call("get_dyn", T, 0, key, "-",
                    Nodes_get_dyn(node_groups, DynKey_new(T, key)), None)
    /\ UNCHANGED <<node_groups, reserved, removed, panicked, lua, module>>

Call_get_dyn_mut(T, key) ==
    /\ ~panicked
    /\ last' = Call("get_dyn_mut", T, 0, key, "-",
                    Nodes_get_dyn_mut(node_groups, DynKey_new(T, key)), None)
    /\ UNCHANGED <<node_groups, reserved, removed, panicked, lua, module>>

Call_iter_dyn(order) ==
    /\ ~panicked
    /\ last' = Call("iter_dyn", "A", 0, NoKey, "-", Nodes_iter_dyn(node_groups, order), None)
    /\ UNCHANGED <<node_groups, reserved, removed, panicked, lua, module>>

\* ------------------------------------------------ handles on their own
\* The Keys the handle conversions are applied to: Keys of any store.
HandleKeys == {KeyData(idx, version) : idx \in 1..(2 * MaxSlots),
                                       version \in {v \in 1..(2 * MaxVersion) : v % 2 = 1}}

\* DynKey::new(key) for a Key<T>, or key.into().
Call_DynKey_new(T, key) ==
    /\ last' = Call("DynKey::new", T, 0, key, "-", DynKey_new(T, key), None)
    /\ UNCHANGED <<node_groups, reserved, removed, panicked, lua, module>>

\* into_static::<U>() on the DynKey just made; val keeps the type it was made for.
Call_DynKey_into_static(U) ==
    /\ last.op = "DynKey::new"
    /\ last' = Call("DynKey::into_static", U, 0, last.key, last.ty,
                    DynKey_into_static(last.ret, U), None)
    /\ UNCHANGED <<node_groups, reserved, removed, panicked, lua, module>>

NextDynKey ==
    \/ \E T \in AllTypes, key \in HandleKeys : Call_DynKey_new(T, key)
    \/ \E U \in AllTypes : Call_DynKey_into_static(U)

SpecDynKey == Init /\ [][NextDynKey]_vars

\* The operations that change the store, called with the Keys and ReservedKeys
\* this store has handed out.
Next ==
    \/ \E T \in Types, node \in Values : Nodes_insert(T, node)
    \/ \E T \in Types, id \in Ids, node \in Values : Nodes_insert_with_id(T, id, node)
    \/ \E T \in Types, id \in Ids : Nodes_reserve_with_id(T, id)
    \/ \E T \in Types, key \in KeySpace, node \in Values : Nodes_insert_reserved(T, key, node)
    \/ \E T \in Types : \E key \in IssuedKeys(node_groups, T) : Nodes_remove(T, key)

Spec == Init /\ [][Next]_vars

\* A store in which every node is given an id: insert_with_id, or reserve_with_id
\* and insert_reserved, and remove.
NextIds ==
    \/ \E T \in Types, id \in Ids, node \in Values : Nodes_insert_with_id(T, id, node)
    \/ \E T \in Types, id \in Ids : Nodes_reserve_with_id(T, id)
    \/ \E T \in Types, key \in KeySpace, node \in Values : Nodes_insert_reserved(T, key, node)
    \/ \E T \in Types : \E key \in IssuedKeys(node_groups, T) : Nodes_remove(T, key)

SpecIds == Init /\ [][NextIds]_vars

\* The operations that change the store, remove called with any Key<T>: one that
\* was removed before, or one of another Nodes, also for a type without a group.
NextRemove ==
    \/ \E T \in Types, node \in Values : Nodes_insert(T, node)
    \/ \E T \in Types, id \in Ids, node \in Values : Nodes_insert_with_id(T, id, node)
    \/ \E T \in Types, id \in Ids : Nodes_reserve_with_id(T, id)
    \/ \E T \in Types, key \in KeySpace, node \in Values : Nodes_insert_reserved(T, key, node)
    \/ \E T \in Types, key \in KeySpace : Nodes_remove(T, key)

SpecRemove == Init /\ [][NextRemove]_vars

\* The same operations, called also with Keys and ReservedKeys of another Nodes.
NextForeign ==
    \/ \E T \in Types, node \in Values : Nodes_insert(T, node)
    \/ \E T \in Types, id \in Ids, node \in Values : Nodes_insert_with_id(T, id, node)
    \/ \E T \in Types, id \in Ids : Nodes_reserve_with_id(T, id)
    \/ \E T \in Types, key \in KeySpace, node \in Values : Nodes_insert_reserved(T, key, node)
    \/ \E T \in Types, key \in KeySpace, node \in Values :
          Nodes_insert_reserved_foreign(T, key, node)
    \/ \E T \in Types, key \in KeySpace : Nodes_remove(T, key)

SpecForeign == Init /\ [][NextForeign]_vars

\* The operations that change the store, interleaved with the read calls.
NextCalls ==
    \/ \E T \in Types, node \in Values : Nodes_insert(T, node)
    \/ \E T \in Types, id \in Ids, node \in Values : Nodes_insert_with_id(T, id, node)
    \/ \E T \in Types, id \in Ids : Nodes_reserve_with_id(T, id)
    \/ \E T \in Types, key \in KeySpace, node \in Values : Nodes_insert_reserved(T, key, node)
    \/ \E T \in Types : \E key \in IssuedKeys(node_groups, T) : Nodes_remove(T, key)
    \/ \E T \in Types, key \in KeySpace : Call_get(T, key)
    \/ \E T \in Types, key \in KeySpace : Call_get_mut(T, key)
    \/ \E T \in Types, id \in Ids : Call_get_key(T, id)
    \/ \E T \in Types, key \in KeySpace : Call_get_dyn(T, key)
    \/ \E T \in Types, key \in KeySpace : Call_get_dyn_mut(T, key)
    \/ \E order \in ValuesOrders(node_groups) : Call_iter_dyn(order)

SpecCalls == Init /\ [][NextCalls]_vars

\* ------------------------------------------- Key::<T>::from_lua, in steps
\* A frame of the stack: Key::from_lua of `table` has reserved `key` and is in
\* T::from_lua, which has parsed the first Len(keys) fields.
Frame(table, key) == [table |-> table, key |-> key, keys |-> <<>>]

\* A Key::from_lua call returns Ok(key): to T::from_lua of the table above it,
\* which goes on with its next field, or out of the outermost call.
ReturnOk(ctx, key) ==
    IF ctx.stack = <<>>
    THEN [ctx EXCEPT !.pc = "ok", !.ret = Some(key)]
    ELSE [ctx EXCEPT !.pc = "running",
                     !.stack[Len(ctx.stack)].keys = Append(@, key)]

\* The ReservedKeys held by the frames of a stack.
RECURSIVE FrameKeys(_)
FrameKeys(stack) ==
    IF stack = <<>> THEN {}
    ELSE {[ty |-> LuaType, key |-> Head(stack).key]} \cup FrameKeys(Tail(stack))

\* from_lua's lookup that takes an id as known only once its slot holds a value.
FromLua_get_key_filled(ng, id) ==
    LET key == Nodes_get_key(ng, LuaType, id)
    IN  IF key # None /\ Nodes_get(ng, LuaType, Unwrap(key)) # None THEN key ELSE None

\* from_lua without the lookup of the id: every call reserves.
FromLua_get_key_never(ng, id) == None

\* context.get_nodes_mut().get_key(&id)
FromLua_get_key(ng, id) == Nodes_get_key(ng, LuaType, id)

\* Key::<T>::from_lua(value, context) up to its call of T::from_lua: a value that
\* is no table is an error, which every caller passes on with `?` (the
\* ReservedKeys of the calls under way are dropped); a table whose id is indexed
\* returns the Key; any other table gets a slot reserved under its id.
Key_from_lua(ctx, value) ==
    IF value = Nil
    THEN /\ lua' = [ctx EXCEPT !.pc = "err", !.ret = None, !.stack = <<>>]
         /\ reserved' = reserved \ FrameKeys(ctx.stack)
         /\ last' = Call("from_lua", LuaType, 0, NoKey, value, None, None)
         /\ UNCHANGED <<node_groups, panicked>>
    ELSE LET a == TableId_get_or_assign(ctx, value)
             id == table_id_to_node_id(a.id)
             found == FromLua_get_key(node_groups, id)
         IN  IF a.panic
             THEN /\ panicked' = TRUE
                  /\ lua' = a.ctx
                  /\ last' = Call("get_or_assign", LuaType, 0, NoKey, value, None, None)
                  /\ UNCHANGED <<node_groups, reserved>>
             ELSE IF found # None
             THEN /\ lua' = ReturnOk(a.ctx, Unwrap(found))
                  /\ last' = Call("get_key", LuaType, id, NoKey, value, found, None)
                  /\ UNCHANGED <<node_groups, reserved, panicked>>
             ELSE LET r == NodeGroup_reserve_with_id(EntryOrInsert(node_groups, LuaType), id)
                  IN  /\ node_groups' = [node_groups EXCEPT ![TypeId_of(LuaType)] = Some(r.group)]
                      /\ reserved' = reserved \cup {[ty |-> LuaType, key |-> r.key]}
                      /\ lua' = [a.ctx EXCEPT !.pc = "running",
                                              !.stack = Append(@, Frame(value, r.key)),
                                              !.call_reserved = @ \cup {r.key}]
                      /\ last' = Call("reserve_with_id", LuaType, id, NoKey, value, r.key, r.prev)
                      /\ UNCHANGED panicked

\* An outermost Key::<T>::from_lua(value, context), when no call is under way.
Lua_from_lua(value) ==
    /\ ~panicked
    /\ lua.pc # "running"
    /\ Key_from_lua([lua EXCEPT !.ret = None, !.call_reserved = {}], value)
    /\ UNCHANGED <<removed, module>>

\* T::from_lua of the innermost table reads its next field: Key::<T>::from_lua.
Lua_field ==
    /\ ~panicked
    /\ lua.pc = "running"
    /\ LET top == lua.stack[Len(lua.stack)]
       IN  /\ Len(top.keys) < Len(lua.script[top.table])
           /\ Key_from_lua(lua, lua.script[top.table][Len(top.keys) + 1])
    /\ UNCHANGED <<removed, module>>

\* T::from_lua of the innermost table has read all fields and returns the node:
\* insert_reserved(reserved_key, node), and the Key goes to the caller.
Lua_insert_reserved ==
    /\ ~panicked
    /\ lua.pc = "running"
    /\ LET top == lua.stack[Len(lua.stack)]
           r == NodeGroup_insert_reserved(EntryOrInsert(node_groups, LuaType), top.key, top.table)
       IN  /\ Len(top.keys) = Len(lua.script[top.table])
           /\ node_groups' = [node_groups EXCEPT ![TypeId_of(LuaType)] = Some(r.group)]
           /\ panicked' = r.panic
           /\ reserved' = reserved \ {[ty |-> LuaType, key |-> top.key]}
           /\ last' = Call("insert_reserved", LuaType, 0, top.key, top.table, r.key, None)
           /\ lua' = ReturnOk([lua EXCEPT !.stack = SubSeq(@, 1, Len(@) - 1),
                                          !.fields[top.table] = top.keys], r.key)
    /\ UNCHANGED <<removed, module>>

\* Nodes::new() and a context over any script.
InitLua ==
    /\ node_groups = [t \in TypeIds |-> None]
    /\ reserved = {}
    /\ removed = {}
    /\ panicked = FALSE
    /\ last = Call("new", "A", 0, NoKey, "-", None, None)
    /\ lua \in {LuaContext(script) : script \in Scripts}
    /\ module = LuaModule_new([T \in GenTypes |-> <<>>])

\* Outermost from_lua calls, one after the other, each run to its end.
NextLua ==
    \/ \E value \in Tables \cup {Nil} : Lua_from_lua(value)
    \/ Lua_field
    \/ Lua_insert_reserved

SpecLua == InitLua /\ [][NextLua]_vars

\* ------------------------------------------------ TableId, TableIdSource
\* TableId::get_or_assign(&table, context)
Call_get_or_assign(table) ==
    /\ ~panicked
    /\ LET a == TableId_get_or_assign(lua, table)
       IN  /\ lua' = a.ctx
           /\ panicked' = a.panic
           /\ last' = Call("get_or_assign", LuaType, 0, NoKey, table,
                           IF a.panic THEN None ELSE Some(a.id), None)
    /\ UNCHANGED <<node_groups, reserved, removed, module>>

\* context.next_table_id(), with a TableIdSource behind it
Call_next_table_id ==
    /\ ~panicked
    /\ LET n == TableIdSource_next_table_id(lua.source)
       IN  /\ lua' = [lua EXCEPT !.source = n.source]
           /\ panicked' = n.panic
           /\ last' = Call("next_table_id", LuaType, 0, NoKey, "-",
                           IF n.panic THEN None ELSE Some(n.id), None)
    /\ UNCHANGED <<node_groups, reserved, removed, module>>

\* ------------------------------------------ derived generate_lua, in steps
\* T::generate_lua(&mut module), called from outside.
Gen_generate_lua(T) ==
    /\ ~panicked
    /\ module.stack = <<>>
    /\ LET r == GenerateLua_generate_lua(module, T)
       IN  /\ module' = r.module
           /\ last' = Call("visit_type", T, 0, NoKey, "-", r.unvisited, None)
    /\ UNCHANGED <<node_groups, reserved, removed, panicked, lua>>

\* The innermost generate_lua delegates to its next base type: #base::generate_lua(module).
Gen_delegate ==
    /\ ~panicked
    /\ module.stack # <<>>
    /\ LET top == module.stack[Len(module.stack)]
           bases == module.types[top.ty]
       IN  /\ top.done < Len(bases)
           /\ LET r == GenerateLua_generate_lua(
                          [module EXCEPT !.stack[Len(module.stack)].done = @ + 1],
                          bases[top.done + 1])
              IN  /\ module' = r.module
                  /\ last' = Call("visit_type", bases[top.done + 1], 0, NoKey, "-",
                                  r.unvisited, None)
    /\ UNCHANGED <<node_groups, reserved, removed, panicked, lua>>

\* The innermost generate_lua has delegated to all its base types: it adds its
\* methods and returns.
Gen_add_method ==
    /\ ~panicked
    /\ module.stack # <<>>
    /\ LET top == module.stack[Len(module.stack)]
       IN  /\ top.done = Len(module.types[top.ty])
           /\ module' = LuaModule_add_method(
                            [module EXCEPT !.stack = SubSeq(@, 1, Len(@) - 1)], top.ty)
           /\ last' = Call("add_method", top.ty, 0, NoKey, "-", None, None)
    /\ UNCHANGED <<node_groups, reserved, removed, panicked, lua>>

\* LuaModule::new() in a program with any type definitions.
InitGen ==
    /\ node_groups = [t \in TypeIds |-> None]
    /\ reserved = {}
    /\ removed = {}
    /\ panicked = FALSE
    /\ last = Call("new", "A", 0, NoKey, "-", None, None)
    /\ lua = LuaContext([t \in Tables |-> <<>>])
    /\ module \in {LuaModule_new(types) : types \in TypeGraphs}

NextGen ==
    \/ \E T \in GenTypes : Gen_generate_lua(T)
    \/ Gen_delegate
    \/ Gen_add_method

SpecGen == InitGen /\ [][NextGen]_vars

NextTableId ==
    \/ \E table \in Tables : Call_get_or_assign(table)
    \/ Call_next_table_id

SpecTableId == Init /\ [][NextTableId]_vars

\* ======================================================== properties
\* The group of a type that has one.
GroupOf(T) == Unwrap(node_groups[TypeId_of(T)])
HasGroup(T) == node_groups[TypeId_of(T)] # None

\* The cell of `key` in the group of T is occupied again by a later allocation.
CellReused(T, key) ==
    /\ HasGroup(T)
    /\ key.idx \in 1..Len(GroupOf(T).nodes.slots)
    /\ GroupOf(T).nodes.slots[key.idx].version > key.version
    /\ GroupOf(T).nodes.slots[key.idx].version % 2 = 1

\* C1: right after reserve_with_id::<T>(id), get_key::<T>(id) is Some(k) for the
\* reserved slot k and get::<T>(k) is None; after insert_reserved(r, v) with a
\* ReservedKey r this store handed out, the returned Key is k and get::<T>(k) is v.
C1_ReserveThenFill ==
    /\ last.op = "reserve_with_id" =>
          /\ Nodes_get_key(node_groups, last.ty, last.id) = Some(last.ret)
          /\ Nodes_get(node_groups, last.ty, last.ret) = None
          /\ [ty |-> last.ty, key |-> last.ret] \in reserved
    /\ (last.op = "insert_reserved" /\ ~panicked) =>
          /\ last.ret = last.key
          /\ Nodes_get(node_groups, last.ty, last.key) = Some(last.val)

\* A reservation made under an id has just been filled, and the id still resolves to it.
C1_Witness ==
    /\ last.op = "insert_reserved"
    /\ ~panicked
    /\ \E id \in Ids : Nodes_get_key(node_groups, last.ty, id) = Some(last.key)
    /\ Nodes_get(node_groups, last.ty, last.key) = Some(last.val)

\* C2: after remove(k), get(k) is None, and get(k') of every other Key k' of any
\* type is what it was before the remove.
C2_RemoveIsolated ==
    [][last'.op = "remove" =>
          /\ Nodes_get(node_groups', last'.ty, last'.key) = None
          /\ \A U \in Types, k2 \in KeySpace :
                (U # last'.ty \/ k2 # last'.key) =>
                    Nodes_get(node_groups', U, k2) = Nodes_get(node_groups, U, k2)]_vars

\* A remove has returned a value while another Key still resolves to a value.
C2_Witness ==
    /\ last.op = "remove"
    /\ last.ret # None
    /\ \E U \in Types, k2 \in KeySpace : Nodes_get(node_groups, U, k2) # None

\* C3: a Key for which remove returned a value resolves to None in every later
\* state, through get, get_mut and get_dyn, also once its cell holds a new value.
C3_RemovedStaysDangling ==
    \A e \in removed :
        /\ Nodes_get(node_groups, e.ty, e.key) = None
        /\ Nodes_get_mut(node_groups, e.ty, e.key) = None
        /\ Nodes_get_dyn(node_groups, DynKey_new(e.ty, e.key)) = None

\* The cell of a removed Key holds a value again.
C3_Witness ==
    \E e \in removed :
        /\ CellReused(e.ty, e.key)
        /\ GroupOf(e.ty).nodes.slots[e.key.idx].value.tag = "Filled"

\* The calls that change the store.
MutatingOps == {"insert", "insert_with_id", "reserve_with_id", "insert_reserved",
                "insert_reserved_foreign", "remove"}

\* C4: insert_with_id(id, v1) returning k1 followed by insert_with_id(id, v2)
\* returning (k2, prev): prev is Some(k1), get_key(id) is k2, get(k2) is v2 and
\* get(k1) is still v1; no insert_with_id removes a slot that held a value.
C4_InsertWithIdOverwrite ==
    [][last'.op = "insert_with_id" =>
          /\ last'.prev = Nodes_get_key(node_groups, last'.ty, last'.id)
          /\ Nodes_get_key(node_groups', last'.ty, last'.id) = Some(last'.ret)
          /\ Nodes_get(node_groups', last'.ty, last'.ret) = Some(last'.val)
          /\ (last.op = "insert_with_id" /\ last.ty = last'.ty /\ last.id = last'.id) =>
                /\ last'.prev = Some(last.ret)
                /\ last'.ret # last.ret
                /\ Nodes_get(node_groups', last.ty, last.ret) = Some(last.val)
          /\ \A k \in KeySpace :
                Nodes_get(node_groups, last'.ty, k) # None =>
                    Nodes_get(node_groups', last'.ty, k) = Nodes_get(node_groups, last'.ty, k)]_vars

\* An insert_with_id has overwritten the index entry of a slot that holds another
\* value, and the old Key still resolves to it.
C4_Witness ==
    /\ last.op = "insert_with_id"
    /\ last.prev # None
    /\ Nodes_get(node_groups, last.ty, Unwrap(last.prev)) # None
    /\ Nodes_get(node_groups, last.ty, Unwrap(last.prev)) # Some(last.val)
    /\ Nodes_get(node_groups, last.ty, last.ret) = Some(last.val)

\* C5: a remove(k) that returns a value deletes every id-index entry that pointed
\* at k: get_key(id) is None afterwards for each such id, and get(k) is None.
C5_RemoveDropsIndex ==
    [][(last'.op = "remove" /\ last'.ret # None) =>
          /\ Nodes_get(node_groups', last'.ty, last'.key) = None
          /\ last'.ids = {id \in Ids :
                            Nodes_get_key(node_groups, last'.ty, id) = Some(last'.key)}
          /\ \A id \in last'.ids : Nodes_get_key(node_groups', last'.ty, id) = None]_vars

\* A remove has returned the value of a slot that an id pointed at.
C5_Witness ==
    /\ last.op = "remove"
    /\ last.ret # None
    /\ last.ids # {}
    /\ \A id \in last.ids : Nodes_get_key(node_groups, last.ty, id) = None

\* C6: every id-index entry points at a slot that exists in its group, Reserved
\* or Filled.
C6_IndexPointsAtSlot ==
    \A T \in Types, id \in Ids :
        Nodes_get_key(node_groups, T, id) # None =>
            /\ SlotMap_contains_key(GroupOf(T).nodes, Unwrap(Nodes_get_key(node_groups, T, id)))
            /\ Unwrap(SlotMap_get(GroupOf(T).nodes,
                                  Unwrap(Nodes_get_key(node_groups, T, id)))).tag
                  \in {"Reserved", "Filled"}

\* A slot an id pointed at has been removed while another id of the group still
\* points at its slot.
C6_Witness ==
    /\ last.op = "remove"
    /\ last.ids # {}
    /\ \E id \in Ids : Nodes_get_key(node_groups, last.ty, id) # None

\* C7: an operation on one type changes neither get_key nor get of any other type.
C7_TypesIndependent ==
    [][last'.op \in MutatingOps =>
          \A U \in Types \ {last'.ty} :
              /\ \A id \in Ids :
                    Nodes_get_key(node_groups', U, id) = Nodes_get_key(node_groups, U, id)
              /\ \A k \in KeySpace :
                    Nodes_get(node_groups', U, k) = Nodes_get(node_groups, U, k)]_vars

\* An id has just been indexed for one type while the same id resolves, to a slot
\* that holds a value, for another type.
C7_Witness ==
    /\ last.op \in {"insert_with_id", "reserve_with_id"}
    /\ \E U \in Types \ {last.ty} :
          /\ Nodes_get_key(node_groups, U, last.id) # None
          /\ Nodes_get(node_groups, U, Unwrap(Nodes_get_key(node_groups, U, last.id))) # None

\* The DynKeys of the Filled slots of all groups.
FilledDynKeys ==
    {dk \in [slot : KeySpace, node_type : TypeIds] :
        /\ node_groups[dk.node_type] # None
        /\ LET slot == SlotMap_get(Unwrap(node_groups[dk.node_type]).nodes, dk.slot)
           IN  slot # None /\ Unwrap(slot).tag = "Filled"}

\* C8: iter_dyn yields one pair per Filled slot of the store and nothing else, the
\* DynKeys are pairwise different, and for each pair get_dyn of the DynKey and
\* typed get of the typed Key return the yielded value.
C8_IterDynExact ==
    \A order \in ValuesOrders(node_groups) :
        LET it == Nodes_iter_dyn(node_groups, order)
        IN  /\ {it[i][1] : i \in 1..Len(it)} = FilledDynKeys
            /\ Len(it) = Cardinality(FilledDynKeys)
            /\ \A i, j \in 1..Len(it) : i # j => it[i][1] # it[j][1]
            /\ \A i \in 1..Len(it) :
                  /\ Nodes_get_dyn(node_groups, it[i][1]) = Some(it[i][2])
                  /\ \E T \in Types :
                        /\ DynKey_into_static(it[i][1], T) # None
                        /\ Nodes_get(node_groups, T, Unwrap(DynKey_into_static(it[i][1], T)))
                              = Some(it[i][2])

\* Two types hold a value each under the same slot identity, and iter_dyn yields
\* the two values under different DynKeys.
C8_Witness ==
    \E order \in ValuesOrders(node_groups) :
        LET it == Nodes_iter_dyn(node_groups, order)
        IN  /\ Len(it) = 2
            /\ it[1][1].slot = it[2][1].slot
            /\ it[1][1].node_type # it[2][1].node_type
            /\ it[1][1] # it[2][1]

\* C9: get_dyn(DynKey::new(k)) returns what get::<T>(k) returns, for every type
\* and Key (None for Reserved, removed and never allocated slots), get_dyn_mut
\* what get_mut returns, and a DynKey of a type without a Group resolves to None.
C9_DynAgreesWithTyped ==
    \A T \in AllTypes, k \in KeySpace :
        /\ Nodes_get_dyn(node_groups, DynKey_new(T, k)) = Nodes_get(node_groups, T, k)
        /\ Nodes_get_dyn_mut(node_groups, DynKey_new(T, k)) = Nodes_get_mut(node_groups, T, k)
        /\ node_groups[TypeId_of(T)] = None =>
              Nodes_get_dyn(node_groups, DynKey_new(T, k)) = None

\* One type holds a value and a Reserved slot, another type has no Group.
C9_Witness ==
    /\ \E T \in Types, k1, k2 \in KeySpace :
          /\ Nodes_get_dyn(node_groups, DynKey_new(T, k1)) # None
          /\ SlotMap_get(GroupOf(T).nodes, k2) = Some(Reserved)
          /\ Nodes_get_dyn(node_groups, DynKey_new(T, k2)) = None
    /\ \E U \in Types : ~HasGroup(U)

\* C10: DynKey::new(k).into_static::<U>() for a Key<T> k is Some(k) when U is T
\* and None for every other type U.
C10_DynKeyRoundTrip ==
    /\ last.op = "DynKey::new" => last.ret.slot = last.key
    /\ last.op = "DynKey::into_static" =>
          last.ret = IF last.ty = last.val THEN Some(last.key) ELSE None

\* A DynKey has been turned back into the Key it was made from.
C10_Witness ==
    /\ last.op = "DynKey::into_static"
    /\ last.ty = last.val
    /\ last.ret = Some(last.key)

\* C11: remove(k) on a slot that is still Reserved returns None and changes
\* nothing: the slot stays Reserved, the index entries pointing at it stay, the
\* ReservedKey is still to be used, and insert_reserved with it then succeeds
\* and makes get(k) return the value.
C11_RemoveReservedNoOp ==
    [][(/\ last'.op = "remove"
        /\ HasGroup(last'.ty)
        /\ SlotMap_get(GroupOf(last'.ty).nodes, last'.key) = Some(Reserved)) =>
          /\ last'.ret = None
          /\ node_groups' = node_groups
          /\ reserved' = reserved
          /\ [ty |-> last'.ty, key |-> last'.key] \in reserved'
          /\ \A v \in Values :
                LET r == NodeGroup_insert_reserved(
                             Unwrap(node_groups'[TypeId_of(last'.ty)]), last'.key, v)
                IN  /\ ~r.panic
                    /\ r.key = last'.key
                    /\ NodeGroup_get(r.group, last'.key) = Some(v)]_vars

\* A remove was called with the Key of a Reserved slot that an id points at.
C11_Witness ==
    /\ last.op = "remove"
    /\ last.ret = None
    /\ last.ids # {}
    /\ HasGroup(last.ty)
    /\ SlotMap_get(GroupOf(last.ty).nodes, last.key) = Some(Reserved)
    /\ [ty |-> last.ty, key |-> last.key] \in reserved

\* The contents of the slot of `key` in the group of T: nodes.get(key.slot).
SlotOf(ng, T, key) ==
    IF ng[TypeId_of(T)] = None THEN None
    ELSE SlotMap_get(Unwrap(ng[TypeId_of(T)]).nodes, key)

\* The cell of `key` in the group of T has not reached the version of `key` yet.
NeverHeld(ng, T, key) ==
    \/ ng[TypeId_of(T)] = None
    \/ key.idx > Len(Unwrap(ng[TypeId_of(T)]).nodes.slots)
    \/ Unwrap(ng[TypeId_of(T)]).nodes.slots[key.idx].version < key.version

InsertReservedOps == {"insert_reserved", "insert_reserved_foreign"}

\* C13: insert_reserved with a ReservedKey whose slot does not exist in the group
\* of T panics: no Key is returned, no slot is created and no slot is filled (the
\* groups that existed are as before, and a group made for T by the call is
\* empty); an insert_reserved that returns found the slot of its ReservedKey.
C13_InsertReservedPanics ==
    [][last'.op \in InsertReservedOps =>
          /\ panicked' =>
                /\ last'.ret = NoKey
                /\ \A t \in TypeIds :
                      \/ node_groups'[t] = node_groups[t]
                      \/ /\ node_groups[t] = None
                         /\ t = TypeId_of(last'.ty)
                         /\ node_groups'[t] = Some(NodeGroup_default(last'.ty))
                /\ \A U \in Types, k \in KeySpace :
                      SlotOf(node_groups', U, k) = SlotOf(node_groups, U, k)
                /\ SumCells(node_groups', TypeIds) = SumCells(node_groups, TypeIds)
          /\ ~panicked' =>
                /\ SlotOf(node_groups, last'.ty, last'.key) # None
                /\ last'.ret = last'.key
                /\ SumCells(node_groups', TypeIds) = SumCells(node_groups, TypeIds)]_vars

\* insert_reserved has panicked on a ReservedKey of another Nodes, in a store
\* that holds a value.
C13_Witness ==
    /\ panicked
    /\ last.op = "insert_reserved_foreign"
    /\ last.ret = NoKey
    /\ \E U \in Types, k \in KeySpace :
          SlotOf(node_groups, U, k) # None /\ Unwrap(SlotOf(node_groups, U, k)).tag = "Filled"

\* The tables whose id is not in the id index: Key::from_lua would reserve for them.
Unindexed(ng, ctx) ==
    {t \in Tables :
        \/ ctx.table_id[t] = None
        \/ Nodes_get_key(ng, LuaType, table_id_to_node_id(Unwrap(ctx.table_id[t]))) = None}

\* The work the calls under way have left: per frame, its return and its unread fields.
RECURSIVE FrameWork(_, _)
FrameWork(script, stack) ==
    IF stack = <<>> THEN 0
    ELSE 1 + (Len(script[Head(stack).table]) - Len(Head(stack).keys))
           + FrameWork(script, Tail(stack))

\* A bound on the steps a from_lua call has left: every table not yet indexed is
\* entered at most once, and stands for its return and at most MaxFields fields.
StepsLeft(ng, ctx) ==
    Cardinality(Unindexed(ng, ctx)) * (MaxFields + 2) + FrameWork(ctx.script, ctx.stack)

\* C14: Key::<T>::from_lua terminates on every finite graph of tables, cyclic or
\* not.  Every step that leaves the call running lowers StepsLeft, which is never
\* negative; a slot is reserved only for a table that is not indexed, and the
\* step indexes it, so no table is under construction twice and the nesting of
\* calls is at most the number of tables.
C14_FromLuaTerminates ==
    [][/\ lua'.pc = "running" =>
             /\ StepsLeft(node_groups', lua') < StepsLeft(node_groups, lua)
             /\ StepsLeft(node_groups', lua') >= 0
       /\ Len(lua'.stack) <= Cardinality(Tables)
       /\ \A i, j \in 1..Len(lua'.stack) :
             i # j => lua'.stack[i].table # lua'.stack[j].table
       /\ Len(lua'.stack) > Len(lua.stack) =>
             /\ lua'.stack[Len(lua'.stack)].table \in Unindexed(node_groups, lua)
             /\ lua'.stack[Len(lua'.stack)].table \notin Unindexed(node_groups', lua')
       /\ lua'.pc \in {"ok", "err"} => lua'.stack = <<>>]_vars

\* An outermost call has returned a Key after it met, inside a table that refers
\* to itself through another table, a table that was still under construction.
C14_Witness ==
    /\ lua.pc = "ok"
    /\ \E t, u \in Tables :
          /\ t # u
          /\ \E i \in DOMAIN lua.script[t] : lua.script[t][i] = u
          /\ \E i \in DOMAIN lua.script[u] : lua.script[u][i] = t
          /\ lua.call_reserved # {}
          /\ Len(lua.fields[t]) = Len(lua.script[t]) /\ Len(lua.fields[t]) > 0
          /\ Len(lua.fields[u]) = Len(lua.script[u])
          /\ Nodes_get(node_groups, LuaType, Unwrap(lua.ret)) # None
          /\ Cardinality(lua.call_reserved) >= 2

\* The tables whose id points at the slot of `key`.
TablesOf(ng, ctx, key) ==
    {t \in Tables :
        /\ ctx.table_id[t] # None
        /\ Nodes_get_key(ng, LuaType, table_id_to_node_id(Unwrap(ctx.table_id[t]))) = Some(key)}

\* Every slot reserved during the outermost call holds the node built from its
\* table, with one Key per field, each the Key of the table the field holds.
ReservedAreFilled ==
    \A key \in lua.call_reserved :
        /\ Cardinality(TablesOf(node_groups, lua, key)) = 1
        /\ \A t \in TablesOf(node_groups, lua, key) :
              /\ Nodes_get(node_groups, LuaType, key) = Some(t)
              /\ Len(lua.fields[t]) = Len(lua.script[t])
              /\ \A i \in DOMAIN lua.script[t] :
                    lua.script[t][i] \in TablesOf(node_groups, lua, lua.fields[t][i])

\* The Key the outermost call returned resolves to the node built from its table
\* (last.val is the table the call was made on).
ReturnedKeyResolves ==
    /\ lua.ret # None
    /\ Nodes_get(node_groups, LuaType, Unwrap(lua.ret)) = Some(last.val)

\* C15: when an outermost Key::<T>::from_lua has returned Ok, every slot reserved
\* during the call is filled with its fully constructed value, and the returned
\* Key resolves via get to the constructed value.
C15_OkMeansFilled ==
    lua.pc = "ok" => (ReservedAreFilled /\ ReturnedKeyResolves)

\* The slots an outermost call reserved itself are filled when it returns Ok.
OwnReservationsFilled ==
    lua.pc = "ok" => ReservedAreFilled

\* The calls that allocate a slot, and those whose slot holds a value at once.
AllocOps == {"insert", "insert_with_id", "reserve_with_id"}
InsertOps == {"insert", "insert_with_id"}

\* The pair iter_dyn yields for the value the last call put into the store.
LastPair(call) == <<DynKey_new(call.ty, call.ret), call.val>>

\* The group of T has a freed cell that the next allocation will take.
HasFreeCell(g) == g.nodes.free_head \in 1..Len(g.nodes.slots)

\* C16 as stated: within one group iter_dyn yields the values in slot allocation
\* order, so the value of a slot allocated now comes after all values already there.
C16_IterDynAllocationOrder ==
    [][last'.op \in InsertOps =>
          NodeGroup_iter_dyn(EntryOrInsert(node_groups', last'.ty))
              = Append(NodeGroup_iter_dyn(EntryOrInsert(node_groups, last'.ty)),
                       LastPair(last'))]_vars

\* C16 as amended: within one group iter_dyn yields the values in the order of
\* their slots' indices.  An allocation with no freed cell in the group takes a
\* new index at the end, so its value comes last (allocation order); an
\* allocation after a remove takes the index of the most recently freed cell,
\* and its value is yielded at that index, before values at higher indices; the
\* other values keep their order in every step.
C16_IterDynIndexOrder ==
    [][\A T \in Types :
          LET g == EntryOrInsert(node_groups, T)
              h == EntryOrInsert(node_groups', T)
              before == NodeGroup_iter_dyn(g)
              after == NodeGroup_iter_dyn(h)
              others == SelectSeq(after, LAMBDA p :
                            ~(last'.op \in MutatingOps /\ last'.ty = T /\ p[1].slot = last'.key)
                            /\ ~(last'.op \in AllocOps /\ last'.ty = T /\ p[1].slot = last'.ret))
              kept == SelectSeq(before, LAMBDA p :
                            ~(last'.op \in MutatingOps /\ last'.ty = T /\ p[1].slot = last'.key))
          IN  /\ \A i, j \in 1..Len(after) : i < j => after[i][1].slot.idx < after[j][1].slot.idx
              /\ others = kept
              /\ (last'.op \in InsertOps /\ last'.ty = T) =>
                    IF HasFreeCell(g)
                    THEN /\ last'.ret.idx = g.nodes.free_head
                         /\ \E i \in 1..Len(after) : after[i] = LastPair(last')
                    ELSE after = Append(before, LastPair(last'))]_vars

\* A value has been inserted into a freed cell and is yielded before a value that
\* was allocated earlier.
C16_Witness ==
    /\ last.op \in InsertOps
    /\ LET it == NodeGroup_iter_dyn(GroupOf(last.ty))
       IN  /\ Len(it) >= 2
           /\ it[1] = LastPair(last)
           /\ last.ret.version > 1
           /\ it[2][1].slot.version = 1

C18_InsertLeavesIndex ==
    [][last'.op = "insert" =>
          /\ Nodes_get(node_groups', last'.ty, last'.ret) = Some(last'.val)
          /\ SlotOf(node_groups', last'.ty, last'.ret) = Some(Filled(last'.val))
          /\ NeverHeld(node_groups, last'.ty, last'.ret)
          /\ \A U \in Types, id \in NodeIds :
                /\ Nodes_get_key(node_groups', U, id) = Nodes_get_key(node_groups, U, id)
                /\ (U = last'.ty => Nodes_get_key(node_groups', U, id) # Some(last'.ret))
          /\ \A k \in KeySpace \ {last'.ret} :
                Nodes_get(node_groups', last'.ty, k) = Nodes_get(node_groups, last'.ty, k)]_vars

\* A value was inserted without an id into the cell of a removed value, in a
\* group whose index holds an id.
C18_Witness ==
    /\ last.op = "insert"
    /\ last.ret.version > 1
    /\ \E id \in Ids : Nodes_get_key(node_groups, last.ty, id) # None
    /\ Nodes_get(node_groups, last.ty, last.ret) = Some(last.val)

\* The Keys of the slots the group of T holds now, Reserved or Filled.
OccupiedKeys(ng, T) == {k \in KeySpace : SlotOf(ng, T, k) # None}

\* C19: the Key that insert, insert_with_id or reserve_with_id returns for a
\* type differs from every Key the store returned for the type before: from
\* those of the slots it holds, and from those of removed slots, also when the
\* new slot takes the cell of a removed one.
C19_KeysUnique ==
    [][last'.op \in AllocOps =>
          /\ last'.ret \notin OccupiedKeys(node_groups, last'.ty)
          /\ [ty |-> last'.ty, key |-> last'.ret] \notin removed
          /\ last'.ret \notin IssuedKeys(node_groups, last'.ty)
          /\ last'.ret \in IssuedKeys(node_groups', last'.ty)
          /\ last'.ret \in OccupiedKeys(node_groups', last'.ty)
          /\ \A k \in OccupiedKeys(node_groups, last'.ty) :
                k \in OccupiedKeys(node_groups', last'.ty)]_vars

\* A slot has been allocated in the cell of a removed value of the same type.
C19_Witness ==
    /\ last.op \in AllocOps
    /\ \E e \in removed :
          /\ e.ty = last.ty
          /\ e.key.idx = last.ret.idx
          /\ e.key # last.ret
    /\ last.ret \in OccupiedKeys(node_groups, last.ty)

\* The calls that take the store by shared reference.
ReadOps == {"get", "get_key", "get_dyn", "iter_dyn"}

\* What a slot holds for a reader: the value put into it, if it is Filled.
ValueOf(ng, T, key) ==
    IF SlotOf(ng, T, key) # None /\ Unwrap(SlotOf(ng, T, key)).tag = "Filled"
    THEN Some(Unwrap(SlotOf(ng, T, key)).value) ELSE None

C21_ReservationStays ==
    /\ \A e \in reserved :
          /\ SlotOf(node_groups, e.ty, e.key) = Some(Reserved)
          /\ Nodes_get(node_groups, e.ty, e.key) = None
          /\ ~NodeGroup_insert_reserved(GroupOf(e.ty), e.key, "x").panic
          /\ [ty |-> e.ty, key |-> e.key] \notin removed
    /\ ~panicked

\* One reservation has been filled while another one, made under an id that has
\* been pointed elsewhere since, is still waiting.
C21_Witness ==
    /\ last.op = "insert_reserved"
    /\ ~panicked
    /\ \E e \in reserved :
          /\ e.ty = last.ty
          /\ SlotOf(node_groups, e.ty, e.key) = Some(Reserved)
          /\ \A id \in Ids : Nodes_get_key(node_groups, e.ty, id) # Some(e.key)

\* The Key the id of a table points at, if the table has an id and it is indexed.
KeyOfTable(ng, ctx, t) ==
    IF ctx.table_id[t] = None THEN None
    ELSE Nodes_get_key(ng, LuaType, table_id_to_node_id(Unwrap(ctx.table_id[t])))

\* The tables whose parse failed: indexed, the slot Reserved, no call under way.
Abandoned(ng, ctx) ==
    {t \in Tables :
        /\ KeyOfTable(ng, ctx, t) # None
        /\ SlotOf(ng, LuaType, Unwrap(KeyOfTable(ng, ctx, t))) = Some(Reserved)
        /\ \A i \in 1..Len(ctx.stack) : ctx.stack[i].table # t}

\* C22: when T::from_lua fails inside Key::<T>::from_lua, the caller gets the
\* error, and the slot reserved for each table under construction stays Reserved
\* and indexed under the table's id, from then on; a later Key::<T>::from_lua of
\* such a table returns Ok with that Key without reserving or parsing anything,
\* and get on that Key is None.
C22_FailedParseLeavesReservation ==
    [][/\ (lua.pc = "running" /\ lua'.pc = "err") =>
             /\ lua'.ret = None
             /\ node_groups' = node_groups
             /\ \A i \in 1..Len(lua.stack) :
                   /\ lua.stack[i].table \in Abandoned(node_groups', lua')
                   /\ KeyOfTable(node_groups', lua', lua.stack[i].table)
                         = Some(lua.stack[i].key)
                   /\ [ty |-> LuaType, key |-> lua.stack[i].key] \notin reserved'
       /\ \A t \in Abandoned(node_groups, lua) :
             /\ t \in Abandoned(node_groups', lua')
             /\ KeyOfTable(node_groups', lua', t) = KeyOfTable(node_groups, lua, t)
             /\ (lua.pc # "running" /\ last'.op # "from_lua" /\ last'.val = t) =>
                   /\ lua'.pc = "ok"
                   /\ lua'.ret = KeyOfTable(node_groups, lua, t)
                   /\ lua'.stack = <<>>
                   /\ lua'.call_reserved = {}
                   /\ node_groups' = node_groups
                   /\ Nodes_get(node_groups', LuaType, Unwrap(lua'.ret)) = None]_vars

\* A table whose parse failed inside a nested table has been resolved again: the
\* call returned Ok with the Key of the slot that is still Reserved.
C22_Witness ==
    /\ lua.pc = "ok"
    /\ last.op = "get_key"
    /\ last.val \in Abandoned(node_groups, lua)
    /\ lua.ret = KeyOfTable(node_groups, lua, last.val)
    /\ Nodes_get(node_groups, LuaType, Unwrap(lua.ret)) = None
    /\ Cardinality(Abandoned(node_groups, lua)) >= 2

\* C23: reserve_with_id(id) on an id that is indexed already, whether its slot is
\* Filled or Reserved, returns the Key the id pointed at, points the id at the new
\* Reserved slot and leaves the previous slot as it was: the previous Key
\* resolves as before, and get(get_key(id)) is None for as long as the new
\* reservation is not filled, and the value once insert_reserved has filled it.
C23_ReserveRepointsId ==
    [][\A T \in Types, id \in Ids :
         LET old == Nodes_get_key(node_groups, T, id)
             new == Nodes_get_key(node_groups', T, id)
         IN  /\ (old # None /\ last'.op = "reserve_with_id" /\ last'.ty = T /\ last'.id = id
                    /\ last' # last) =>
                   /\ last'.prev = old
                   /\ new = Some(last'.ret)
                   /\ new # old
                   /\ [ty |-> T, key |-> last'.ret] \in reserved'
                   /\ SlotOf(node_groups, T, last'.ret) = None
                   /\ SlotOf(node_groups', T, last'.ret) = Some(Reserved)
                   /\ Nodes_get(node_groups', T, last'.ret) = None
                   /\ SlotOf(node_groups, T, Unwrap(old)) # None
                   /\ SlotOf(node_groups', T, Unwrap(old)) = SlotOf(node_groups, T, Unwrap(old))
                   /\ Nodes_get(node_groups', T, Unwrap(old)) = Nodes_get(node_groups, T, Unwrap(old))
             /\ (new # None /\ [ty |-> T, key |-> Unwrap(new)] \in reserved') =>
                   Nodes_get(node_groups', T, Unwrap(new)) = None
             /\ (old # None /\ [ty |-> T, key |-> Unwrap(old)] \in reserved
                    /\ [ty |-> T, key |-> Unwrap(old)] \notin reserved') =>
                   /\ last'.op = "insert_reserved"
                   /\ new = old
                   /\ Nodes_get(node_groups', T, Unwrap(new)) = Some(last'.val)]_vars

\* reserve_with_id has just re-pointed an id whose slot holds a value: the id
\* resolves to nothing, the previous Key to its value.
C23_Witness ==
    /\ last.op = "reserve_with_id"
    /\ last.prev # None
    /\ Nodes_get(node_groups, last.ty, Unwrap(last.prev)) # None
    /\ Nodes_get_key(node_groups, last.ty, last.id) = Some(last.ret)
    /\ Nodes_get(node_groups, last.ty, last.ret) = None

\* C24: remove(k_old) deletes only the id-index entries that point at the slot of
\* k_old.  Every id that points at another slot, such as an id that a later
\* insert_with_id or reserve_with_id has re-pointed from k_old to k_new, still
\* gives the same Key from get_key after the remove, and that slot and what get
\* returns for its Key are unchanged.
C24_RemoveKeepsRepointedId ==
    [][last'.op = "remove" =>
          \A id \in Ids :
              LET k_new == Nodes_get_key(node_groups, last'.ty, id)
              IN  (k_new # None /\ k_new # Some(last'.key)) =>
                     /\ Nodes_get_key(node_groups', last'.ty, id) = k_new
                     /\ SlotOf(node_groups', last'.ty, Unwrap(k_new))
                           = SlotOf(node_groups, last'.ty, Unwrap(k_new))
                     /\ Nodes_get(node_groups', last'.ty, Unwrap(k_new))
                           = Nodes_get(node_groups, last'.ty, Unwrap(k_new))]_vars

\* In a store where every slot is allocated under an id and nothing else was
\* removed, remove has returned the value of a slot that no id pointed at any
\* more: its id had been re-pointed, and still resolves to the value of k_new.
C24_Witness ==
    /\ last.op = "remove"
    /\ last.ret # None
    /\ last.ids = {}
    /\ removed = {[ty |-> last.ty, key |-> last.key]}
    /\ \E id \in Ids :
          LET k_new == Nodes_get_key(node_groups, last.ty, id)
          IN  /\ k_new # None
              /\ k_new # Some(last.key)
              /\ Nodes_get(node_groups, last.ty, Unwrap(k_new)) # None

\* The tables that have a slot: their id is indexed in the group of T.
Resolved(ng, ctx) == {t \in Tables : KeyOfTable(ng, ctx, t) # None}

\* The number of slots of the group of T.
SlotCount(ng, T) ==
    IF ng[TypeId_of(T)] = None THEN 0 ELSE Len(SlotMap_iter(Unwrap(ng[TypeId_of(T)]).nodes))

\* C25: resolving one table as Key<T> is idempotent.  A slot is reserved, and
\* T::from_lua begun, only for a table that has no slot yet; the table keeps the
\* Key of that slot from then on; every call for the table that returns a Key
\* returns that Key, and a call for a table that has its slot changes no slot and
\* starts no parse.  The group has exactly one slot per resolved table.
C25_FromLuaIdempotent ==
    [][/\ \A t \in Resolved(node_groups, lua) :
             KeyOfTable(node_groups', lua', t) = KeyOfTable(node_groups, lua, t)
       /\ \A t, u \in Resolved(node_groups', lua') :
             KeyOfTable(node_groups', lua', t) = KeyOfTable(node_groups', lua', u) => t = u
       /\ SlotCount(node_groups', LuaType) = Cardinality(Resolved(node_groups', lua'))
       /\ (Len(lua'.stack) > Len(lua.stack) \/ node_groups' # node_groups) =>
             last'.op \in {"reserve_with_id", "insert_reserved"}
       /\ \A t \in Tables :
             /\ (last'.op = "reserve_with_id" /\ last'.val = t /\ lua' # lua) =>
                   /\ t \notin Resolved(node_groups, lua)
                   /\ KeyOfTable(node_groups', lua', t) = Some(last'.ret)
                   /\ SlotCount(node_groups', LuaType) = SlotCount(node_groups, LuaType) + 1
                   /\ lua'.stack = Append(lua.stack, Frame(t, last'.ret))
             /\ (last'.op = "insert_reserved" /\ last'.val = t /\ lua' # lua) =>
                   /\ KeyOfTable(node_groups, lua, t) = Some(last'.ret)
                   /\ SlotCount(node_groups', LuaType) = SlotCount(node_groups, LuaType)
                   /\ Len(lua'.stack) = Len(lua.stack) - 1
             /\ (last'.op = "get_key" /\ last'.val = t /\ lua' # lua) =>
                   /\ KeyOfTable(node_groups, lua, t) = last'.ret
                   /\ last'.ret # None
                   /\ node_groups' = node_groups
                   /\ lua'.stack = IF lua.pc = "running"
                                    THEN ReturnOk(lua, Unwrap(last'.ret)).stack ELSE <<>>
             /\ (lua'.pc = "ok" /\ lua' # lua /\ last'.val = t /\ lua'.stack = <<>>) =>
                   lua'.ret = KeyOfTable(node_groups', lua', t)]_vars

\* A table that was parsed to its node has been resolved once more, by an
\* outermost call: the same Key, and still one slot for each resolved table.
C25_Witness ==
    /\ lua.pc = "ok"
    /\ last.op = "get_key"
    /\ last.val \in Tables
    /\ lua.fields[last.val] # <<>>
    /\ Nodes_get(node_groups, LuaType, Unwrap(lua.ret)) = Some(last.val)
    /\ lua.ret = KeyOfTable(node_groups, lua, last.val)
    /\ SlotCount(node_groups, LuaType) = Cardinality(Resolved(node_groups, lua))

\* C26: DynKeys are equal exactly when the slot identity and the type tag are
\* equal.  Where two types each hold a value in a slot of the same slot identity,
\* the two DynKeys are unequal and get_dyn on each returns the value of its type.
C26_DynKeyTyped ==
    \A T \in Types, U \in Types, k \in KeySpace, j \in KeySpace :
        (Nodes_get(node_groups, T, k) # None /\ Nodes_get(node_groups, U, j) # None) =>
            /\ DynKey_eq(DynKey_new(T, k), DynKey_new(U, j)) <=> (T = U /\ k = j)
            /\ DynKey_eq(DynKey_new(T, k), DynKey_new(U, j)) <=>
                  DynKey_eq(DynKey_new(U, j), DynKey_new(T, k))
            /\ Nodes_get_dyn(node_groups, DynKey_new(T, k)) = Nodes_get(node_groups, T, k)
            /\ Nodes_get_dyn(node_groups, DynKey_new(U, j)) = Nodes_get(node_groups, U, j)

\* Two types hold different values in slots of the same slot identity.
C26_Witness ==
    \E T \in Types, U \in Types, k \in KeySpace :
        /\ T # U
        /\ Nodes_get(node_groups, T, k) # None
        /\ Nodes_get(node_groups, U, k) # None
        /\ Nodes_get(node_groups, T, k) # Nodes_get(node_groups, U, k)
        /\ ~DynKey_eq(DynKey_new(T, k), DynKey_new(U, k))
        /\ Nodes_get_dyn(node_groups, DynKey_new(T, k)) = Nodes_get(node_groups, T, k)
        /\ Nodes_get_dyn(node_groups, DynKey_new(U, k)) = Nodes_get(node_groups, U, k)

\* C27: remove(k) on a Filled slot returns the value stored there.  A remove(k)
\* with a Key that was removed before returns None and changes no slot and no
\* id-index entry, also once the cell holds a newer value; remove for a type that
\* has no group returns None and creates none.
C27_RemoveOnce ==
    [][(last'.op = "remove" /\ ~panicked) =>
          /\ last'.ret = Nodes_get(node_groups, last'.ty, last'.key)
          /\ last'.ret # None => Nodes_get(node_groups', last'.ty, last'.key) = None
          /\ [ty |-> last'.ty, key |-> last'.key] \in removed =>
                /\ last'.ret = None
                /\ node_groups' = node_groups
          /\ node_groups[TypeId_of(last'.ty)] = None =>
                /\ last'.ret = None
                /\ node_groups' = node_groups]_vars

\* remove has been repeated with a Key whose cell holds a newer value by now: it
\* returned None and the newer value is still there.
C27_Witness ==
    /\ last.op = "remove"
    /\ last.ret = None
    /\ [ty |-> last.ty, key |-> last.key] \in removed
    /\ CellReused(last.ty, last.key)
    /\ \E k \in KeySpace :
          /\ k.idx = last.key.idx
          /\ Nodes_get(node_groups, last.ty, k) # None

\* C28: table ids are stable and unique.  The first get_or_assign on a table
\* returns the counter of the TableIdSource, an id no table has, stores it in the
\* table and advances the counter; a later get_or_assign on the table returns the
\* stored id and consumes none; next_table_id returns the counter and advances it
\* by one, and at the largest integer it panics instead of wrapping around, so
\* the counter never goes down, no id is returned twice and no two tables share
\* an id.
C28_TableIdsUnique ==
    [][/\ \A t \in Tables :
             /\ (last'.op = "get_or_assign" /\ last'.val = t /\ ~panicked'
                    /\ lua.table_id[t] = None) =>
                   /\ last'.ret = Some(lua.source)
                   /\ \A u \in Tables : lua.table_id[u] # Some(lua.source)
                   /\ lua'.table_id = [lua.table_id EXCEPT ![t] = Some(lua.source)]
                   /\ lua'.source = lua.source + 1
             /\ (last'.op = "get_or_assign" /\ last'.val = t
                    /\ lua.table_id[t] # None) =>
                   /\ last'.ret = lua.table_id[t]
                   /\ lua' = lua
                   /\ ~panicked'
             /\ lua.table_id[t] # None => lua'.table_id[t] = lua.table_id[t]
             /\ lua'.table_id[t] # None =>
                   /\ Unwrap(lua'.table_id[t]) \in 0..(lua'.source - 1)
                   /\ \A u \in Tables \ {t} : lua'.table_id[u] # lua'.table_id[t]
       /\ (last'.op = "next_table_id" /\ ~panicked' /\ lua' # lua) =>
             /\ last'.ret = Some(lua.source)
             /\ lua'.source = lua.source + 1
             /\ lua'.table_id = lua.table_id
       /\ lua'.source >= lua.source
       /\ lua'.source \in 0..IntegerMax
       /\ lua.source = IntegerMax => lua' = lua
       /\ (panicked' /\ ~panicked) =>
             /\ lua.source = IntegerMax
             /\ last'.ret = None
       /\ (lua.source = IntegerMax /\ last' # last /\ last'.ret # None) =>
             /\ last'.op = "get_or_assign"
             /\ last'.ret = lua.table_id[last'.val]]_vars

\* Two tables have their ids, ids have been taken since, and get_or_assign on a
\* table that had its id has returned that id again.
C28_Witness ==
    /\ last.op = "get_or_assign"
    /\ ~panicked
    /\ last.ret = lua.table_id[last.val]
    /\ last.ret # None
    /\ lua.source > Unwrap(last.ret) + 2
    /\ \E u \in Tables \ {last.val} :
          /\ lua.table_id[u] # None
          /\ lua.table_id[u] # last.ret

\* The types on the stack of generate_lua calls.
GenOnStack(mod) == {mod.stack[i].ty : i \in 1..Len(mod.stack)}

\* The work generate_lua has left: for each call under way its delegations to
\* come and its return, and the same for each type not visited yet.
RECURSIVE GenFrameWork(_, _)
GenFrameWork(types, stack) ==
    IF stack = <<>> THEN 0
    ELSE Len(types[Head(stack).ty]) - Head(stack).done + 1 + GenFrameWork(types, Tail(stack))

RECURSIVE GenTypeWork(_, _)
GenTypeWork(types, unvisited) ==
    IF unvisited = {} THEN 0
    ELSE LET T == CHOOSE T \in unvisited : TRUE
         IN  Len(types[T]) + 1 + GenTypeWork(types, unvisited \ {T})

GenStepsLeft(mod) ==
    GenFrameWork(mod.types, mod.stack) + GenTypeWork(mod.types, GenTypes \ mod.visited_types)

\* C29: visit_type::<T>() returns true on the first call for T and false on
\* every later one; the derived generate_lua marks its type visited before it
\* delegates to a base type, so every call under way is of a visited type and of
\* a different type; each step of a generate_lua call uses up one unit of a
\* finite amount of work, so the call ends, also on types that refer to each
\* other in a cycle; and the methods of a type are added once, when the first
\* generate_lua of the type returns, and never again.
C29_GenerateLuaOnce ==
    [][/\ module.visited_types \subseteq module'.visited_types
       /\ (last'.op = "visit_type" /\ (module' # module \/ last' # last)) =>
             /\ last'.ret = (last'.ty \notin module.visited_types)
             /\ last'.ty \in module'.visited_types
             /\ last'.ret <=> Len(module'.stack) > Len(module.stack)
             /\ last'.ret => module'.stack[Len(module'.stack)] = [ty |-> last'.ty, done |-> 0]
       /\ GenOnStack(module') \subseteq module'.visited_types
       /\ Cardinality(GenOnStack(module')) = Len(module'.stack)
       /\ \A T \in GenTypes :
             /\ module'.methods[T] =
                   IF T \in module'.visited_types \ GenOnStack(module') THEN 1 ELSE 0
             /\ module'.methods[T] >= module.methods[T]
             /\ module'.methods[T] > module.methods[T] =>
                   /\ last'.op = "add_method"
                   /\ last'.ty = T
                   /\ T \in GenOnStack(module)
       /\ (module.stack # <<>> /\ module' # module) =>
             GenStepsLeft(module') = GenStepsLeft(module) - 1
       /\ module.stack = <<>> => GenStepsLeft(module') = GenStepsLeft(module)
       /\ GenStepsLeft(module') >= 0]_vars

\* generate_lua has returned for two types that delegate to each other: both are
\* visited, and the methods of each were added once.
C29_Witness ==
    /\ module.stack = <<>>
    /\ last.op = "add_method"
    /\ \E T \in GenTypes, U \in GenTypes :
          /\ T # U
          /\ \E i \in 1..Len(module.types[T]) : module.types[T][i] = U
          /\ \E i \in 1..Len(module.types[U]) : module.types[U][i] = T
          /\ {T, U} \subseteq module.visited_types
          /\ module.methods[T] = 1
          /\ module.methods[U] = 1

\* C30: in every reachable state the id index of every group is injective: a
\* slot is the target of at most one id-index entry.
C30_IdIndexInjective ==
    \A T \in Types, id \in NodeIds, jd \in NodeIds :
        (/\ Nodes_get_key(node_groups, T, id) # None
         /\ Nodes_get_key(node_groups, T, id) = Nodes_get_key(node_groups, T, jd)) => id = jd

\* Two ids of a group are indexed, one of them at a slot whose cell was freed by
\* remove and handed out again.
C30_Witness ==
    \E T \in Types, id \in Ids, jd \in Ids :
        /\ id # jd
        /\ Nodes_get_key(node_groups, T, id) # None
        /\ Nodes_get_key(node_groups, T, jd) # None
        /\ Nodes_get_key(node_groups, T, id) # Nodes_get_key(node_groups, T, jd)
        /\ \E e \in removed :
              /\ e.ty = T
              /\ CellReused(T, e.key)
              /\ Unwrap(Nodes_get_key(node_groups, T, jd)).idx = e.key.idx

====
